---- MODULE Spec2Model ----
(***************************************************************************)
(* Rental management app (expo / expo-sqlite): the record store, the       *)
(* dashboard's rent ledger (loadStats) and the tenancy handlers of the     *)
(* tenants screen, together with the database module's tenancy operations. *)
(***************************************************************************)
EXTENDS Integers, FiniteSets, Sequences, Bags, TLC

VARIABLES
    tenants,      \* table tenants: set of tenant ids
    blocks,       \* table blocks: set of block ids
    units,        \* table units: set of rows [id, block_id, monthly_rent, status]
    tenancies,    \* table tenancies: set of rows [id, tenant_id, unit_id, start_date, end_date, status]
    payments,     \* table payments: set of rows [id, tenancy_id, amount, payment_date, payment_for_month]
    sqlite_sequence, \* AUTOINCREMENT counters, [tenancies |-> n, payments |-> n]
    now,          \* the device's local calendar date, [y, m, d]
    tzOffset,     \* the device's UTC offset in hours
    utcToday,     \* the UTC calendar date of the same instant
    stats,        \* DashboardScreen state `stats`
    ledger,       \* the rows loadStats' forEach computed on its last run
    loading,      \* DashboardScreen state `loading`
    error,        \* DashboardScreen state `error`: the message, "" for null
    payTenancies, \* PaymentsScreen state `tenancies`: ids offered by its picker
    payPayments,  \* PaymentsScreen state `payments`: the rows as last loaded
    payAlert,     \* the last Alert the payments screen raised, "" for none
    blockAlert,   \* the last Alert the blocks screen raised, "" for none
    scrUnits,     \* TenantsScreen state `units`: rows [id, status] as last loaded
    availableUnits,            \* TenantsScreen state `availableUnits`: unit ids
    selectedTenantForTenancy,  \* tenant id, 0 for null
    selectedUnitForTenancy,    \* unit id, 0 for null
    scrTenancies, \* TenantsScreen state `tenancies`: rows [id, unit_id, status] as last loaded
    isTenancyModalVisible,
    tenancyStartDate,          \* the start date text field
    inflight      \* the bag of handler invocations suspended at an await

store == <<tenants, blocks, units, tenancies, payments, sqlite_sequence>>
clock == <<now, tzOffset, utcToday>>
dashboard == <<stats, ledger, loading, error>>
paymentsScreen == <<payTenancies, payPayments, payAlert>>
blocksScreen == <<blockAlert>>
tenantsScreen == <<scrUnits, availableUnits, selectedTenantForTenancy,
                   selectedUnitForTenancy, scrTenancies, isTenancyModalVisible,
                   tenancyStartDate, inflight>>

vars == <<tenants, blocks, units, tenancies, payments, sqlite_sequence, now, tzOffset, utcToday,
          stats, ledger, loading, error, payTenancies, payPayments, payAlert, blockAlert,
          scrUnits, availableUnits,
          selectedTenantForTenancy, selectedUnitForTenancy, scrTenancies,
          isTenancyModalVisible, tenancyStartDate, inflight>>

(***************************************************************************)
(* Bounds                                                                  *)
(***************************************************************************)
CalendarMonths == 15      \* months the calendar specification's clock runs over
StartDays == 31           \* start dates: the first StartDays days from FirstStart on
MaxInFlight == 2          \* handler invocations suspended at the same time
MaxTenancies == 2         \* tenancy rows ever inserted
MaxPayments == 2          \* payment ids handed out by handleAddPayment run up to MaxPayments + 1

TimeZones == {-5, 0, 3}   \* UTC offsets of the device, in hours
Rents == {0, 8000}
Amounts == {16000, 24000} \* amounts typed into the payment form

(***************************************************************************)
(* Calendar                                                                *)
(***************************************************************************)
Date(y, m, d) == [y |-> y, m |-> m, d |-> d]

NoDate == Date(0, 0, 0)   \* SQL NULL in a date column

IsLeap(y) == (y % 4 = 0 /\ y % 100 # 0) \/ y % 400 = 0

DaysInMonth(y, m) ==
    IF m = 2 THEN (IF IsLeap(y) THEN 29 ELSE 28)
    ELSE IF m \in {4, 6, 9, 11} THEN 30 ELSE 31

NextDay(dt) ==
    IF dt.d < DaysInMonth(dt.y, dt.m) THEN Date(dt.y, dt.m, dt.d + 1)
    ELSE IF dt.m < 12 THEN Date(dt.y, dt.m + 1, 1)
    ELSE Date(dt.y + 1, 1, 1)

PrevDay(dt) ==
    IF dt.d > 1 THEN Date(dt.y, dt.m, dt.d - 1)
    ELSE IF dt.m > 1 THEN Date(dt.y, dt.m - 1, DaysInMonth(dt.y, dt.m - 1))
    ELSE Date(dt.y - 1, 12, 31)

\* Months since year 0, used to bound the clock.
MonthIndex(dt) == dt.y * 12 + (dt.m - 1)

(* new Date('YYYY-MM-DD'): a date-only string is parsed as midnight UTC;   *)
(* the local-time getters then see the previous day west of Greenwich.     *)
NewDateFromString(s, tz) == IF tz < 0 THEN PrevDay(s) ELSE s

getFullYear(dt) == dt.y
getMonth(dt) == dt.m - 1
getDate(dt) == dt.d

(* The UTC dates an instant can have when its local date is `local`: the   *)
(* candidates for new Date().toISOString().split('T')[0].                  *)
ToISODates(local, tz) ==
    IF tz > 0 THEN {local, PrevDay(local)}
    ELSE IF tz < 0 THEN {local, NextDay(local)}
    ELSE {local}

MonthKey(dt) == [y |-> dt.y, m |-> dt.m]

Max(a, b) == IF a >= b THEN a ELSE b
FirstDate == Date(2023, 12, 1)    \* where the calendar specification's clock starts
FirstStart == Date(2024, 1, 1)    \* the earliest start date it draws
LedgerDate == Date(2024, 5, 3)    \* the date of the ledger specification
StartInputs == {Date(2024, 6, 10)}  \* dates typed into the start date field
\* Months picked in the "payment for month" picker, next to the current month
\* the form opens with: a month before every start.
PaymentMonthPicks == {Date(2023, 5, 1)}
\* Days picked in the "payment date" picker: in the month before the ledger date.
PaymentDatePicks == {Date(2024, 4, 20)}

RECURSIVE DaysFrom(_, _)
DaysFrom(dt, n) == IF n = 0 THEN {} ELSE {dt} \cup DaysFrom(NextDay(dt), n - 1)

(***************************************************************************)
(* Aggregates of the SQL queries                                           *)
(***************************************************************************)
RECURSIVE SumAmount(_)
SumAmount(P) ==
    IF P = {} THEN 0
    ELSE LET p == CHOOSE x \in P : TRUE
         IN  p.amount + SumAmount(P \ {p})

CountStatus(rows, s) == Cardinality({r \in rows : r.status = s})

(***************************************************************************)
(* loadStats: the rent ledger                                              *)
(***************************************************************************)
\* monthsDue without the year term of line 180.
monthsDue_NoYearTerm(start_date, currentDate, tz) ==
    LET startDate == NewDateFromString(start_date, tz)
        m1 == 0 - getMonth(startDate)
        m2 == m1 + getMonth(currentDate)
        m3 == IF getDate(startDate) <= getDate(currentDate) THEN m2 + 1 ELSE m2
    IN  Max(0, m3)

\* lines 179-193: the month count of one outstandingBalances row
monthsDue(start_date, currentDate, tz) ==
    LET startDate == NewDateFromString(start_date, tz)
        m0 == (getFullYear(currentDate) - getFullYear(startDate)) * 12
        m1 == m0 - getMonth(startDate)
        m2 == m1 + getMonth(currentDate)
        m3 == IF getDate(startDate) <= getDate(currentDate) THEN m2 + 1 ELSE m2
    IN  Max(0, m3)

\* As outstandingBalances, but summing only the payments attributed to a
\* month of the tenancy.
outstandingBalances_PeriodFiltered(ten, un, pay) ==
    { [tenancy_id   |-> t.id,
       monthly_rent |-> u.monthly_rent,
       start_date   |-> t.start_date,
       total_paid   |-> SumAmount({p \in pay :
                          /\ p.tenancy_id = t.id
                          /\ MonthIndex(p.payment_for_month) >= MonthIndex(t.start_date)})]
      : <<t, u>> \in {tu \in ten \X un :
                        tu[1].status = "active" /\ tu[1].unit_id = tu[2].id} }

\* lines 153-169: one row per active tenancy joined to its unit, with the
\* sum of all its payments (LEFT JOIN, COALESCE(SUM(p.amount), 0)).
outstandingBalances(ten, un, pay) ==
    { [tenancy_id   |-> t.id,
       monthly_rent |-> u.monthly_rent,
       start_date   |-> t.start_date,
       total_paid   |-> SumAmount({p \in pay : p.tenancy_id = t.id})]
      : <<t, u>> \in {tu \in ten \X un :
                        tu[1].status = "active" /\ tu[1].unit_id = tu[2].id} }

\* As ledgerRow, with a balance that leaves out what was paid.
ledgerRow_RentOnly(row, currentDate, tz) ==
    LET months == monthsDue(row.start_date, currentDate, tz)
        theoreticalRentDue == row.monthly_rent * months
    IN  [tenancy_id         |-> row.tenancy_id,
         monthsDue          |-> months,
         theoreticalRentDue |-> theoreticalRentDue,
         currentBalance     |-> theoreticalRentDue]

\* lines 173-201: the forEach body, per row
ledgerRow(row, currentDate, tz) ==
    LET months == monthsDue(row.start_date, currentDate, tz)
        theoreticalRentDue == row.monthly_rent * months
    IN  [tenancy_id         |-> row.tenancy_id,
         monthsDue          |-> months,
         theoreticalRentDue |-> theoreticalRentDue,
         currentBalance     |-> theoreticalRentDue - row.total_paid]

ledgerRows(ten, un, pay, currentDate, tz) ==
    { ledgerRow(row, currentDate, tz) : row \in outstandingBalances(ten, un, pay) }

\* As SumPositiveBalances, but letting a credit offset another tenancy's debt.
RECURSIVE SumPositiveBalances_Signed(_)
SumPositiveBalances_Signed(rows) ==
    IF rows = {} THEN 0
    ELSE LET r == CHOOSE x \in rows : TRUE
         IN  r.currentBalance + SumPositiveBalances_Signed(rows \ {r})

RECURSIVE SumPositiveBalances(_)
SumPositiveBalances(rows) ==
    IF rows = {} THEN 0
    ELSE LET r == CHOOSE x \in rows : TRUE
         IN  (IF r.currentBalance > 0 THEN r.currentBalance ELSE 0)
             + SumPositiveBalances(rows \ {r})

RECURSIVE SumRent(_)
SumRent(rows) ==
    IF rows = {} THEN 0
    ELSE LET r == CHOOSE x \in rows : TRUE
         IN  r.monthly_rent + SumRent(rows \ {r})

\* As collectedAllTime, but with SUM(DISTINCT amount).
collectedAllTime_Distinct(pay) ==
    LET amounts == {p.amount : p \in pay}
    IN  SumAmount({[amount |-> a] : a \in amounts})

\* lines 109-113: SELECT SUM(amount) FROM payments
collectedAllTime(pay) == SumAmount(pay)

\* As collectedThisMonth, selecting on the month of payment_date.
collectedThisMonth_ByPaymentDate(pay, currentMonthYear) ==
    SumAmount({p \in pay : MonthKey(p.payment_date) = currentMonthYear})

\* lines 115-133: SELECT SUM(amount) FROM payments WHERE payment_for_month = ?
collectedThisMonth(pay, currentMonthYear) ==
    SumAmount({p \in pay : p.payment_for_month = currentMonthYear})

\* As expectedThisMonth, without the WHERE clause on the status.
expectedThisMonth_AnyStatus(ten, un) ==
    SumRent({ [tenancy_id |-> t.id, monthly_rent |-> u.monthly_rent]
              : <<t, u>> \in {tu \in ten \X un : tu[1].unit_id = tu[2].id} })

\* lines 135-143: SUM(u.monthly_rent) over tenancies joined to their unit
\* WHERE t.status = 'active'
expectedThisMonth(ten, un) == SumRent(outstandingBalances(ten, un, {}))

initialStats ==
    [totalTenants |-> 0, totalBlocks |-> 0, totalUnits |-> 0,
     totalOccupiedUnits |-> 0, totalVacantUnits |-> 0, totalMaintenanceUnits |-> 0,
     totalActiveTenancies |-> 0, totalEndedTenancies |-> 0, totalNoticeTenancies |-> 0,
     totalCollectedThisMonth |-> 0, totalExpectedThisMonth |-> 0,
     totalOutstandingAcrossAllMonths |-> 0, totalCollectedAcrossAllMonths |-> 0]

\* lines 56-217: the object handed to setStats; currentMonthYear is the
\* UTC year-month of the instant (toISOString().slice(0, 7)).
computedStats(tn, bl, un, ten, pay, currentDate, tz, currentMonthYear) ==
    [totalTenants |-> Cardinality(tn),
     totalBlocks |-> Cardinality(bl),
     totalUnits |-> Cardinality(un),
     totalOccupiedUnits |-> CountStatus(un, "occupied"),
     totalVacantUnits |-> CountStatus(un, "vacant"),
     totalMaintenanceUnits |-> CountStatus(un, "maintenance"),
     totalActiveTenancies |-> CountStatus(ten, "active"),
     totalEndedTenancies |-> CountStatus(ten, "ended"),
     totalNoticeTenancies |-> CountStatus(ten, "notice"),
     totalCollectedThisMonth |-> collectedThisMonth(pay, currentMonthYear),
     totalExpectedThisMonth |-> expectedThisMonth(ten, un),
     totalOutstandingAcrossAllMonths |->
         SumPositiveBalances(ledgerRows(ten, un, pay, currentDate, tz)),
     totalCollectedAcrossAllMonths |-> collectedAllTime(pay)]

\* As loadStats, but adding the collections onto the ones already shown.
loadStats_Accumulating ==
    LET computed == computedStats(tenants, blocks, units, tenancies, payments,
                                  now, tzOffset, MonthKey(utcToday))
    IN  /\ stats' = [computed EXCEPT
                       !.totalCollectedAcrossAllMonths =
                           @ + stats.totalCollectedAcrossAllMonths]
        /\ ledger' = ledgerRows(tenancies, units, payments, now, tzOffset)
        /\ loading' = FALSE
        /\ error' = ""
        /\ UNCHANGED <<store, clock, paymentsScreen, blocksScreen, tenantsScreen>>

loadStats ==
    /\ stats' = computedStats(tenants, blocks, units, tenancies, payments,
                              now, tzOffset, MonthKey(utcToday))
    /\ ledger' = ledgerRows(tenancies, units, payments, now, tzOffset)
    /\ loading' = FALSE
    /\ error' = ""
    /\ UNCHANGED <<store, clock, paymentsScreen, blocksScreen, tenantsScreen>>

\* lines 51-52, 218-223: one of the awaited queries rejects; the catch block
\* sets the message, setStats is never reached, finally clears `loading`.
loadStats_catch ==
    /\ error' = "Failed to load dashboard statistics. Please try again."
    /\ loading' = FALSE
    /\ UNCHANGED <<store, clock, stats, ledger, paymentsScreen, blocksScreen,
                   tenantsScreen>>

\* lines 51-53: openDatabaseAsync is awaited before the try block, so its
\* rejection leaves the function: neither catch nor finally runs.
loadStats_openRejects ==
    /\ loading' = TRUE
    /\ error' = ""
    /\ UNCHANGED <<store, clock, stats, ledger, paymentsScreen, blocksScreen,
                   tenantsScreen>>

(***************************************************************************)
(* TenantsScreen: state                                                    *)
(***************************************************************************)
\* the suspended invocations of the async handlers, each with the values
\* its closure holds
Suspended == BagToSet(inflight)
Resume(h) == inflight (-) SetToBag({h})
Suspend(bag, h) == bag (+) SetToBag({h})

\* The tenants screen before it is mounted (specifications that do not use it).
TenantsScreenUnmounted ==
    /\ scrUnits = {}
    /\ availableUnits = {}
    /\ selectedTenantForTenancy = 0
    /\ selectedUnitForTenancy = 0
    /\ scrTenancies = {}
    /\ isTenancyModalVisible = FALSE
    /\ tenancyStartDate = NoDate
    /\ inflight = EmptyBag

(***************************************************************************)
(* The clock                                                               *)
(***************************************************************************)
Tick ==
    /\ MonthIndex(NextDay(now)) < MonthIndex(FirstDate) + CalendarMonths
    /\ now' = NextDay(now)
    /\ utcToday' = NextDay(utcToday)
    /\ UNCHANGED <<store, tzOffset, dashboard, paymentsScreen, blocksScreen, tenantsScreen>>

(***************************************************************************)
(* Calendar specification: one active tenancy without payments, every      *)
(* start date of a month, the clock running over CalendarMonths months.    *)
(***************************************************************************)
StartDates == DaysFrom(FirstStart, StartDays)

TenancyRow(id, tenant, unit, start, end, status) ==
    [id |-> id, tenant_id |-> tenant, unit_id |-> unit,
     start_date |-> start, end_date |-> end, status |-> status]

UnitRow(id, block, rent, status) ==
    [id |-> id, block_id |-> block, monthly_rent |-> rent, status |-> status]

InitCalendar ==
    /\ tenants = {1}
    /\ blocks = {1}
    /\ \E r \in Rents : units = {UnitRow(1, 1, r, "occupied")}
    /\ \E s \in StartDates : tenancies = {TenancyRow(1, 1, 1, s, NoDate, "active")}
    /\ payments = {}
    /\ sqlite_sequence = [tenancies |-> 1, payments |-> 0]
    /\ now = FirstDate
    /\ tzOffset \in TimeZones
    /\ utcToday = now            \* around local noon
    /\ stats = initialStats
    /\ ledger = {}
    /\ loading = TRUE
    /\ error = ""
    /\ payTenancies = {1}
    /\ payPayments = payments
    /\ payAlert = ""
    /\ blockAlert = ""
    /\ TenantsScreenUnmounted

NextCalendar == Tick \/ loadStats

SpecCalendar == InitCalendar /\ [][NextCalendar]_vars

(***************************************************************************)
(* PaymentsScreen                                                          *)
(***************************************************************************)
PaymentRow(id, tenancy, amount, date, month) ==
    [id |-> id, tenancy_id |-> tenancy, amount |-> amount,
     payment_date |-> date, payment_for_month |-> month]

\* loadData, second query: the active tenancies (joined to their tenant and
\* unit) offered by the tenancy picker.
activeTenancyIds(tn, un, ten) ==
    { t.id : t \in { x \in ten : /\ x.status = "active"
                                 /\ x.tenant_id \in tn
                                 /\ \E u \in un : u.id = x.unit_id } }

\* formatDate(new Date()): date.toISOString().split('T')[0]
formatDate == utcToday

\* formatMonthYear: local year and month of the picked date
formatMonthYear(date) == MonthKey(date)

validateInputs(selectedTenancyId, amount) ==
    selectedTenancyId # 0 /\ amount > 0

\* formatDate(new Date(payment_date + 'T00:00:00')): handleEditPress builds the
\* local midnight of the stored day, which toISOString places on the day
\* before east of Greenwich.
formatDateOfLocalMidnight(date, tz) == IF tz > 0 THEN PrevDay(date) ELSE date

\* new Date(payment_for_month + '-01T00:00:00')
firstOfMonth(key) == Date(key.y, key.m, 1)

\* the store's check of FOREIGN KEY (tenancy_id) REFERENCES tenancies (id)
tenancyExists(id) == \E t \in tenancies : t.id = id

\* the two alerts of the catch blocks when err.message is the engine's
\* "FOREIGN KEY constraint failed"
AddPaymentForeignKeyAlert == "Failed to add payment: FOREIGN KEY constraint failed"
UpdatePaymentForeignKeyAlert == "Failed to update payment: FOREIGN KEY constraint failed"

\* the payments the list shows after loadData's first query
loadedPayments(bl, tn, un, ten, pay) ==
    { p \in pay : \E t \in ten : /\ t.id = p.tenancy_id
                                  /\ t.tenant_id \in tn
                                  /\ \E u \in un : u.id = t.unit_id /\ u.block_id \in bl }

\* As insertPayment, over a store that does not check the reference.
insertPayment_Unchecked(selectedTenancyId, amount, paymentForMonthDate, payment_date) ==
    /\ payments' = payments \cup
          {PaymentRow(sqlite_sequence.payments + 1, selectedTenancyId, amount,
                      payment_date, formatMonthYear(paymentForMonthDate))}
    /\ sqlite_sequence' = [sqlite_sequence EXCEPT !.payments = @ + 1]
    /\ payAlert' = "Payment added successfully!"
    /\ payTenancies' = activeTenancyIds(tenants, units, tenancies)
    /\ payPayments' = loadedPayments(blocks, tenants, units, tenancies, payments')
    /\ UNCHANGED <<tenants, blocks, units, tenancies, clock, dashboard,
                   blocksScreen, tenantsScreen>>

\* handleAddPayment from its try block on: the INSERT, then either the
\* success alert and loadData, or the catch block's alert.
insertPayment(selectedTenancyId, amount, paymentForMonthDate, payment_date) ==
    /\ IF tenancyExists(selectedTenancyId)
       THEN /\ payments' = payments \cup
                  {PaymentRow(sqlite_sequence.payments + 1, selectedTenancyId, amount,
                              payment_date, formatMonthYear(paymentForMonthDate))}
            /\ sqlite_sequence' = [sqlite_sequence EXCEPT !.payments = @ + 1]
            /\ payAlert' = "Payment added successfully!"
            /\ payTenancies' = activeTenancyIds(tenants, units, tenancies)
            /\ payPayments' = loadedPayments(blocks, tenants, units, tenancies, payments')
       ELSE /\ payAlert' = AddPaymentForeignKeyAlert
            /\ UNCHANGED <<payments, sqlite_sequence, payTenancies, payPayments>>
    /\ UNCHANGED <<tenants, blocks, units, tenancies, clock, dashboard,
                   blocksScreen, tenantsScreen>>

handleAddPayment ==
    \E selectedTenancyId \in payTenancies, amount \in Amounts,
       paymentForMonthDate \in PaymentMonthPicks \cup {now},
       payment_date \in PaymentDatePicks \cup {formatDate} :
        /\ validateInputs(selectedTenancyId, amount)
        /\ sqlite_sequence.payments <= MaxPayments
        /\ insertPayment(selectedTenancyId, amount, paymentForMonthDate, payment_date)

\* handleUpdatePayment from its try block on.  An UPDATE whose WHERE matches
\* no row changes nothing and checks nothing.
updatePayment(editingPayment, selectedTenancyId, amount) ==
    /\ IF (\E p \in payments : p.id = editingPayment.id)
          /\ ~tenancyExists(selectedTenancyId)
       THEN /\ payAlert' = UpdatePaymentForeignKeyAlert
            /\ UNCHANGED <<payments, payTenancies, payPayments>>
       ELSE /\ payments' =
                  { IF p.id = editingPayment.id
                    THEN PaymentRow(p.id, selectedTenancyId, amount,
                             formatDateOfLocalMidnight(editingPayment.payment_date, tzOffset),
                             formatMonthYear(firstOfMonth(editingPayment.payment_for_month)))
                    ELSE p : p \in payments }
            /\ payAlert' = "Payment updated successfully!"
            /\ payTenancies' = activeTenancyIds(tenants, units, tenancies)
            /\ payPayments' = loadedPayments(blocks, tenants, units, tenancies, payments')
    /\ UNCHANGED <<tenants, blocks, units, tenancies, sqlite_sequence, clock,
                   dashboard, blocksScreen, tenantsScreen>>

\* handleEditPress on a row of the list, a tenancy picked or left as it is,
\* the amount left as loaded, then handleUpdatePayment.
handleUpdatePayment ==
    \E editingPayment \in payPayments :
    \E selectedTenancyId \in payTenancies \cup {editingPayment.tenancy_id},
       amount \in {editingPayment.amount} :
        /\ validateInputs(selectedTenancyId, amount)
        /\ updatePayment(editingPayment, selectedTenancyId, amount)

(***************************************************************************)
(* Ledger specification: two active tenancies and an ended one with a      *)
(* payment that was recorded, before it ended, for the month of the ledger *)
(* date; a fixed date, payments recorded through the payments screen.      *)
(***************************************************************************)
InitLedger ==
    /\ tenants = {1, 2}
    /\ blocks = {1}
    /\ units = {UnitRow(1, 1, 8000, "occupied"), UnitRow(2, 1, 10000, "occupied")}
    /\ tenancies =
          {TenancyRow(1, 1, 1, Date(2024, 1, 1), NoDate, "active"),
           TenancyRow(2, 2, 2, Date(2024, 3, 15), NoDate, "active"),
           TenancyRow(3, 2, 1, Date(2023, 6, 1), Date(2023, 12, 31), "ended")}
    /\ payments = {PaymentRow(1, 3, 8000, Date(2023, 12, 30), MonthKey(LedgerDate))}
    /\ sqlite_sequence = [tenancies |-> 3, payments |-> 1]
    /\ now = LedgerDate
    /\ tzOffset \in TimeZones
    /\ utcToday \in ToISODates(now, tzOffset)
    /\ stats = initialStats
    /\ ledger = {}
    /\ loading = TRUE
    /\ error = ""
    /\ payTenancies = {1, 2}
    /\ payPayments = payments
    /\ payAlert = ""
    /\ blockAlert = ""
    /\ TenantsScreenUnmounted

NextLedger ==
    \/ handleAddPayment
    \/ loadStats
    \/ loadStats_catch
    \/ loadStats_openRejects

SpecLedger == InitLedger /\ [][NextLedger]_vars

(***************************************************************************)
(* TenantsScreen: queries                                                  *)
(***************************************************************************)
\* loadUnitsAndTenancies, first query: units JOIN blocks
allUnits(bl, un) ==
    { [id |-> u.id, status |-> u.status] : u \in {x \in un : x.block_id \in bl} }

\* loadUnitsAndTenancies: vacant AND not in an active tenancy
trulyAvailableUnits(bl, un, ten) ==
    { u.id : u \in { x \in allUnits(bl, un) :
                       /\ x.status = "vacant"
                       /\ ~ \E t \in ten : t.status = "active" /\ t.unit_id = x.id } }

\* trulyAvailableUnits[0]
FirstOf(S) == CHOOSE x \in S : \A y \in S : x <= y

\* loadUnitsAndTenancies against the tables as written by the calling step;
\* closureSel is selectedUnitForTenancy as the calling closure captured it.
loadUnitsAndTenancies(bl, un, ten, closureSel, currentSel) ==
    /\ scrUnits' = allUnits(bl, un)
    /\ availableUnits' = trulyAvailableUnits(bl, un, ten)
    /\ selectedUnitForTenancy' =
          IF trulyAvailableUnits(bl, un, ten) # {} /\ closureSel = 0
          THEN FirstOf(trulyAvailableUnits(bl, un, ten))
          ELSE currentSel

\* loadTenanciesForTenant: tenancies JOIN units JOIN blocks WHERE tenant_id = ?
tenanciesForTenant(tenantId, bl, un, ten) ==
    { [id |-> t.id, unit_id |-> t.unit_id, status |-> t.status] :
        t \in { x \in ten : /\ x.tenant_id = tenantId
                            /\ \E u \in un : u.id = x.unit_id /\ u.block_id \in bl } }

(***************************************************************************)
(* The store's cascading deletes (ON DELETE CASCADE, foreign_keys = ON)    *)
(***************************************************************************)
cascadeTenancies(tn, un, ten) ==
    { t \in ten : t.tenant_id \in tn /\ \E u \in un : u.id = t.unit_id }

cascadePayments(ten, pay) ==
    { p \in pay : \E t \in ten : t.id = p.tenancy_id }

setUnitStatus(un, unitId, status) ==
    { IF u.id = unitId THEN [u EXCEPT !.status = status] ELSE u : u \in un }

CanSuspend == BagCardinality(inflight) < MaxInFlight

\* tenancy rows written so far plus the INSERTs already on their way
PendingInserts ==
    BagCardinality([h \in {x \in Suspended : x.op = "add" /\ x.pc = "insert"}
                       |-> inflight[h]])

(***************************************************************************)
(* TenantsScreen: the tenancy modal                                        *)
(***************************************************************************)
openTenancyModal ==
    \E tenant \in tenants :
        /\ ~isTenancyModalVisible
        /\ selectedTenantForTenancy' = tenant
        /\ scrTenancies' = tenanciesForTenant(tenant, blocks, units, tenancies)
        /\ loadUnitsAndTenancies(blocks, units, tenancies,
                                 selectedUnitForTenancy, selectedUnitForTenancy)
        /\ isTenancyModalVisible' = TRUE
        /\ UNCHANGED <<store, clock, dashboard, paymentsScreen, blocksScreen, tenancyStartDate, inflight>>

closeTenancyModal ==
    /\ isTenancyModalVisible
    /\ isTenancyModalVisible' = FALSE
    /\ selectedTenantForTenancy' = 0
    /\ tenancyStartDate' = utcToday
    /\ selectedUnitForTenancy' = 0
    /\ UNCHANGED <<store, clock, dashboard, paymentsScreen, blocksScreen, scrUnits, availableUnits,
                   scrTenancies, inflight>>

\* the unit Picker's onValueChange
setSelectedUnitForTenancy ==
    \E itemValue \in availableUnits :
        /\ isTenancyModalVisible
        /\ itemValue # selectedUnitForTenancy
        /\ selectedUnitForTenancy' = itemValue
        /\ UNCHANGED <<store, clock, dashboard, paymentsScreen, blocksScreen, scrUnits, availableUnits,
                       selectedTenantForTenancy, scrTenancies, isTenancyModalVisible,
                       tenancyStartDate, inflight>>

\* the start date TextInput's onChangeText
setTenancyStartDate ==
    \E text \in StartInputs :
        /\ isTenancyModalVisible
        /\ text # tenancyStartDate
        /\ tenancyStartDate' = text
        /\ UNCHANGED <<store, clock, dashboard, paymentsScreen, blocksScreen, scrUnits, availableUnits,
                       selectedTenantForTenancy, selectedUnitForTenancy, scrTenancies,
                       isTenancyModalVisible, inflight>>

(***************************************************************************)
(* TenantsScreen: handleAddTenancy, suspended at each awaited write        *)
(***************************************************************************)
\* lines 285-304: the "Assign Unit" press up to the first await
handleAddTenancy_begin ==
    /\ CanSuspend
    /\ isTenancyModalVisible
    /\ availableUnits # {} /\ selectedUnitForTenancy # 0      \* button not disabled
    /\ selectedTenantForTenancy # 0 /\ tenancyStartDate # NoDate
    /\ ~ \E unit \in scrUnits :
           unit.id = selectedUnitForTenancy /\ unit.status = "occupied"
    /\ sqlite_sequence.tenancies + PendingInserts < MaxTenancies
    /\ inflight' = Suspend(inflight,
          [op |-> "add", pc |-> "insert", tenant |-> selectedTenantForTenancy,
           unit |-> selectedUnitForTenancy, tenancy |-> 0,
           start |-> tenancyStartDate, selNull |-> FALSE])
    /\ UNCHANGED <<store, clock, dashboard, paymentsScreen, blocksScreen, scrUnits, availableUnits,
                   selectedTenantForTenancy, selectedUnitForTenancy, scrTenancies,
                   isTenancyModalVisible, tenancyStartDate>>

\* lines 308-313: INSERT INTO tenancies (..., "active")
handleAddTenancy_insert ==
    \E h \in Suspended :
        /\ h.op = "add" /\ h.pc = "insert"
        /\ h.tenant \in tenants /\ \E u \in units : u.id = h.unit   \* FOREIGN KEYs
        /\ tenancies' = tenancies \cup
              {TenancyRow(sqlite_sequence.tenancies + 1, h.tenant, h.unit,
                          h.start, NoDate, "active")}
        /\ sqlite_sequence' = [sqlite_sequence EXCEPT !.tenancies = @ + 1]
        /\ inflight' = Suspend(Resume(h),
              [h EXCEPT !.pc = "update", !.tenancy = sqlite_sequence.tenancies + 1])
        /\ UNCHANGED <<tenants, blocks, units, payments, clock, dashboard, paymentsScreen, blocksScreen,
                       scrUnits, availableUnits, selectedTenantForTenancy,
                       selectedUnitForTenancy, scrTenancies, isTenancyModalVisible,
                       tenancyStartDate>>

\* lines 315-323: UPDATE units, the success alert, the resets and reloads
handleAddTenancy_update ==
    \E h \in Suspended :
        LET units2 == setUnitStatus(units, h.unit, "occupied")
        IN
        /\ h.op = "add" /\ h.pc = "update"
        /\ units' = units2
        /\ tenancyStartDate' = utcToday
        /\ scrTenancies' = tenanciesForTenant(h.tenant, blocks, units2, tenancies)
        /\ loadUnitsAndTenancies(blocks, units2, tenancies, h.unit, 0)
        /\ inflight' = Resume(h)
        /\ UNCHANGED <<tenants, blocks, tenancies, payments, sqlite_sequence, clock,
                       dashboard, paymentsScreen, blocksScreen, selectedTenantForTenancy,
                       isTenancyModalVisible>>

(***************************************************************************)
(* TenantsScreen: handleEndTenancy, suspended at each awaited write        *)
(***************************************************************************)
\* lines 330-340: the "End" press on a listed active tenancy, confirmed
handleEndTenancy_begin ==
    \E item \in scrTenancies :
        /\ CanSuspend
        /\ isTenancyModalVisible
        /\ item.status = "active"
        /\ inflight' = Suspend(inflight,
              [op |-> "end", pc |-> "tenancy", tenant |-> selectedTenantForTenancy,
               unit |-> item.unit_id, tenancy |-> item.id,
               start |-> NoDate, selNull |-> (selectedUnitForTenancy = 0)])
        /\ UNCHANGED <<store, clock, dashboard, paymentsScreen, blocksScreen, scrUnits, availableUnits,
                       selectedTenantForTenancy, selectedUnitForTenancy, scrTenancies,
                       isTenancyModalVisible, tenancyStartDate>>

\* lines 341-347: UPDATE tenancies SET end_date = ?, status = "ended"
handleEndTenancy_tenancy ==
    \E h \in Suspended :
        LET endDate == utcToday IN
        /\ h.op = "end" /\ h.pc = "tenancy"
        /\ tenancies' = { IF t.id = h.tenancy
                          THEN [t EXCEPT !.end_date = endDate, !.status = "ended"]
                          ELSE t : t \in tenancies }
        /\ inflight' = Suspend(Resume(h), [h EXCEPT !.pc = "unit"])
        /\ UNCHANGED <<tenants, blocks, units, payments, sqlite_sequence, clock,
                       dashboard, paymentsScreen, blocksScreen, scrUnits, availableUnits,
                       selectedTenantForTenancy, selectedUnitForTenancy, scrTenancies,
                       isTenancyModalVisible, tenancyStartDate>>

\* lines 348-357: UPDATE units SET status = "vacant", the alert, the reloads
handleEndTenancy_unit ==
    \E h \in Suspended :
        LET units2 == setUnitStatus(units, h.unit, "vacant")
        IN
        /\ h.op = "end" /\ h.pc = "unit"
        /\ units' = units2
        /\ scrTenancies' = IF h.tenant # 0
                           THEN tenanciesForTenant(h.tenant, blocks, units2, tenancies)
                           ELSE scrTenancies
        /\ loadUnitsAndTenancies(blocks, units2, tenancies,
                                 IF h.selNull THEN 0 ELSE h.unit, selectedUnitForTenancy)
        /\ inflight' = Resume(h)
        /\ UNCHANGED <<tenants, blocks, tenancies, payments, sqlite_sequence, clock,
                       dashboard, paymentsScreen, blocksScreen, selectedTenantForTenancy,
                       isTenancyModalVisible, tenancyStartDate>>

\* a suspended write rejects: the catch block alerts and the handler ends
handlerCatch ==
    \E h \in Suspended :
        /\ inflight' = Resume(h)
        /\ UNCHANGED <<store, clock, dashboard, paymentsScreen, blocksScreen, scrUnits, availableUnits,
                       selectedTenantForTenancy, selectedUnitForTenancy, scrTenancies,
                       isTenancyModalVisible, tenancyStartDate>>

(***************************************************************************)
(* TenantsScreen.handleDeleteTenant and UnitsScreen.handleUpdateUnit: one  *)
(* awaited write each                                                      *)
(***************************************************************************)
handleDeleteTenant ==
    \E id \in tenants :
        LET tenants2 == tenants \ {id}
            tenancies2 == cascadeTenancies(tenants2, units, tenancies)
        IN
        /\ ~isTenancyModalVisible
        /\ tenants' = tenants2
        /\ tenancies' = tenancies2
        /\ payments' = cascadePayments(tenancies2, payments)
        /\ loadUnitsAndTenancies(blocks, units, tenancies2,
                                 selectedUnitForTenancy, selectedUnitForTenancy)
        /\ UNCHANGED <<blocks, units, sqlite_sequence, clock, dashboard, paymentsScreen, blocksScreen,
                       selectedTenantForTenancy, scrTenancies, isTenancyModalVisible,
                       tenancyStartDate, inflight>>

\* As cascadeUnits, with a reference that does not cascade.
cascadeUnits_Kept(bl, un) == un

\* units FOREIGN KEY (block_id) REFERENCES blocks (id) ON DELETE CASCADE
cascadeUnits(bl, un) == { u \in un : u.block_id \in bl }

BlockDeletedAlert == "Block and its associated units/tenancies deleted successfully!"
DeletionRestrictedAlert ==
    "Cannot delete block: There are still units associated with this block. Please ensure all units linked to this block are removed first, or check your database schema for cascading delete behavior."

\* As deleteBlock, over a units table whose reference to blocks restricts
\* the delete.
deleteBlock_Restricted(id) ==
    IF \E u \in units : u.block_id = id
    THEN /\ blockAlert' = DeletionRestrictedAlert
         /\ UNCHANGED <<store, clock, dashboard, paymentsScreen, tenantsScreen>>
    ELSE /\ blocks' = blocks \ {id}
         /\ blockAlert' = BlockDeletedAlert
         /\ UNCHANGED <<tenants, units, tenancies, payments, sqlite_sequence, clock,
                        dashboard, paymentsScreen, tenantsScreen>>

\* the Delete button of handleDeleteBlock's confirmation: DELETE FROM blocks
\* WHERE id = ?, which the store carries down the ON DELETE CASCADE chain.
deleteBlock(id) ==
    LET blocks2 == blocks \ {id}
        units2 == cascadeUnits(blocks2, units)
        tenancies2 == cascadeTenancies(tenants, units2, tenancies)
    IN
    /\ blocks' = blocks2
    /\ units' = units2
    /\ tenancies' = tenancies2
    /\ payments' = cascadePayments(tenancies2, payments)
    /\ blockAlert' = BlockDeletedAlert
    /\ UNCHANGED <<tenants, sqlite_sequence, clock, dashboard, paymentsScreen,
                   tenantsScreen>>

handleDeleteBlock == \E id \in blocks : deleteBlock(id)

\* As handleUpdateUnit, with a status Picker that offers a fourth item.
handleUpdateUnit_FourthStatus ==
    \E editingUnit \in units :
      \E unitStatus \in {"vacant", "occupied", "maintenance", "reserved"} :
        /\ ~isTenancyModalVisible
        /\ unitStatus # editingUnit.status
        /\ units' = setUnitStatus(units, editingUnit.id, unitStatus)
        /\ UNCHANGED <<tenants, blocks, tenancies, payments, sqlite_sequence, clock,
                       dashboard, paymentsScreen, blocksScreen, tenantsScreen>>

handleUpdateUnit ==
    \E editingUnit \in units : \E unitStatus \in {"vacant", "occupied", "maintenance"} :
        /\ ~isTenancyModalVisible
        /\ unitStatus # editingUnit.status
        /\ units' = setUnitStatus(units, editingUnit.id, unitStatus)
        /\ UNCHANGED <<tenants, blocks, tenancies, payments, sqlite_sequence, clock,
                       dashboard, paymentsScreen, blocksScreen, tenantsScreen>>

(***************************************************************************)
(* The database module's tenancy operations.  They are written against a   *)
(* module-level handle `db`; they are modelled as run with that handle     *)
(* open on the store.                                                      *)
(***************************************************************************)
\* tenancy.status || 'active'
statusOrActive(status) == IF status = "" THEN "active" ELSE status

tenancyOperations_addTenancy ==
    \E tenant_id \in tenants, unit \in units, status \in {"", "notice"} :
        /\ sqlite_sequence.tenancies < MaxTenancies
        /\ tenancies' = tenancies \cup
              {TenancyRow(sqlite_sequence.tenancies + 1, tenant_id, unit.id,
                          now, NoDate, statusOrActive(status))}
        /\ sqlite_sequence' = [sqlite_sequence EXCEPT !.tenancies = @ + 1]
        /\ units' = setUnitStatus(units, unit.id, "occupied")
        /\ UNCHANGED <<tenants, blocks, payments, clock, dashboard, paymentsScreen, blocksScreen,
                       tenantsScreen>>

tenancyOperations_endTenancy ==
    \E tenancy \in tenancies :
        /\ tenancy.status # "inactive"
        /\ tenancies' = { IF t.id = tenancy.id
                          THEN [t EXCEPT !.status = "inactive", !.end_date = now]
                          ELSE t : t \in tenancies }
        /\ units' = setUnitStatus(units, tenancy.unit_id, "vacant")
        /\ UNCHANGED <<tenants, blocks, payments, sqlite_sequence, clock, dashboard,
                       paymentsScreen, blocksScreen, tenantsScreen>>

(***************************************************************************)
(* Tenancy specification: one tenant, two vacant units of one block, the   *)
(* tenants screen mounted, the handlers of its tenancy modal and the       *)
(* tenant delete.  The device is east of Greenwich, so the UTC date the    *)
(* handlers store is the local date or the day before it.                  *)
(***************************************************************************)
DeviceZone == FirstOf({tz \in TimeZones : tz > 0})

Init ==
    /\ tenants = {1}
    /\ blocks = {1}
    /\ units = {UnitRow(1, 1, 8000, "vacant"), UnitRow(2, 1, 8000, "vacant")}
    /\ tenancies = {}
    /\ payments = {}
    /\ sqlite_sequence = [tenancies |-> 0, payments |-> 0]
    /\ now = LedgerDate
    /\ tzOffset = DeviceZone
    /\ utcToday \in ToISODates(now, tzOffset)
    /\ stats = initialStats
    /\ ledger = {}
    /\ loading = TRUE
    /\ error = ""
    /\ payTenancies = {}
    /\ payPayments = payments
    /\ payAlert = ""
    /\ blockAlert = ""
    /\ scrUnits = allUnits(blocks, units)
    /\ availableUnits = trulyAvailableUnits(blocks, units, tenancies)
    /\ selectedTenantForTenancy = 0
    /\ selectedUnitForTenancy = FirstOf(trulyAvailableUnits(blocks, units, tenancies))
    /\ scrTenancies = {}
    /\ isTenancyModalVisible = FALSE
    /\ tenancyStartDate = utcToday
    /\ inflight = EmptyBag

Next ==
    \/ openTenancyModal
    \/ closeTenancyModal
    \/ setSelectedUnitForTenancy
    \/ handleAddTenancy_begin
    \/ handleAddTenancy_insert
    \/ handleAddTenancy_update
    \/ handleEndTenancy_begin
    \/ handleEndTenancy_tenancy
    \/ handleEndTenancy_unit
    \/ handleDeleteTenant

Spec == Init /\ [][Next]_vars

(***************************************************************************)
(* Module specification: the same store, driven through the database       *)
(* module's tenancy operations and read by the dashboard.                  *)
(***************************************************************************)
NextModule ==
    \/ tenancyOperations_addTenancy
    \/ tenancyOperations_endTenancy
    \/ handleDeleteTenant
    \/ handleUpdateUnit
    \/ loadStats

SpecModule == Init /\ [][NextModule]_vars

(***************************************************************************)
(* Start date specification: the tenancy specification with the start date *)
(* field of the modal typed into.                                          *)
(***************************************************************************)
NextStartDate ==
    \/ Next
    \/ setTenancyStartDate

SpecStartDate == Init /\ [][NextStartDate]_vars

(***************************************************************************)
(* Expected rent specification: an active tenancy that started months ago, *)
(* an active one whose start date is still ahead, an ended one and one on  *)
(* notice, on two units of different rent; tenancies are ended through the *)
(* database module and the dashboard is loaded.                            *)
(***************************************************************************)
InitExpected ==
    /\ tenants = {1, 2}
    /\ blocks = {1}
    /\ units = {UnitRow(1, 1, 8000, "occupied"), UnitRow(2, 1, 10000, "occupied")}
    /\ tenancies =
          {TenancyRow(1, 1, 1, Date(2024, 1, 1), NoDate, "active"),
           TenancyRow(2, 2, 2, Date(2024, 6, 10), NoDate, "active"),
           TenancyRow(3, 2, 1, Date(2023, 6, 1), Date(2023, 12, 31), "ended"),
           TenancyRow(4, 1, 2, Date(2024, 3, 15), NoDate, "notice")}
    /\ payments = {PaymentRow(1, 3, 8000, Date(2023, 12, 30), MonthKey(LedgerDate))}
    /\ sqlite_sequence = [tenancies |-> 4, payments |-> 1]
    /\ now = LedgerDate
    /\ tzOffset \in TimeZones
    /\ utcToday \in ToISODates(now, tzOffset)
    /\ stats = initialStats
    /\ ledger = {}
    /\ loading = TRUE
    /\ error = ""
    /\ payTenancies = {}
    /\ payPayments = {}
    /\ payAlert = ""
    /\ blockAlert = ""
    /\ TenantsScreenUnmounted

NextExpected ==
    \/ tenancyOperations_endTenancy
    \/ loadStats

SpecExpected == InitExpected /\ [][NextExpected]_vars

(***************************************************************************)
(* Records specification: two blocks with a unit each, a tenancy and a     *)
(* payment under both, the payments, tenants and blocks screens mounted.   *)
(* The device is on Greenwich time, where editing a payment keeps its      *)
(* payment date.                                                           *)
(***************************************************************************)
GreenwichZone == CHOOSE tz \in TimeZones : tz = 0

InitRecords ==
    /\ tenants = {1, 2}
    /\ blocks = {1, 2}
    /\ units = {UnitRow(1, 1, 8000, "occupied"), UnitRow(2, 2, 10000, "occupied")}
    /\ tenancies =
          {TenancyRow(1, 1, 1, Date(2024, 1, 1), NoDate, "active"),
           TenancyRow(2, 2, 2, Date(2024, 3, 15), NoDate, "active"),
           TenancyRow(3, 2, 1, Date(2023, 6, 1), Date(2023, 12, 31), "ended")}
    /\ payments = {PaymentRow(1, 3, 8000, Date(2023, 6, 1), [y |-> 2023, m |-> 6]),
                   PaymentRow(2, 2, 10000, Date(2024, 4, 20), [y |-> 2024, m |-> 4])}
    /\ sqlite_sequence = [tenancies |-> 3, payments |-> 2]
    /\ now = LedgerDate
    /\ tzOffset = GreenwichZone
    /\ utcToday \in ToISODates(now, tzOffset)
    /\ stats = initialStats
    /\ ledger = {}
    /\ loading = TRUE
    /\ error = ""
    /\ payTenancies = activeTenancyIds(tenants, units, tenancies)
    /\ payPayments = payments
    /\ payAlert = ""
    /\ blockAlert = ""
    /\ scrUnits = allUnits(blocks, units)
    /\ availableUnits = trulyAvailableUnits(blocks, units, tenancies)
    /\ selectedTenantForTenancy = 0
    /\ selectedUnitForTenancy = 0
    /\ scrTenancies = {}
    /\ isTenancyModalVisible = FALSE
    /\ tenancyStartDate = utcToday
    /\ inflight = EmptyBag

NextRecords ==
    \/ handleAddPayment
    \/ handleUpdatePayment
    \/ handleDeleteTenant
    \/ handleDeleteBlock

SpecRecords == InitRecords /\ [][NextRecords]_vars

(* C1: every loadStats run computes, for each active tenancy, the month    *)
(* count max(0, (cy - sy) * 12 + (cm - sm) + (1 if cd >= sd else 0)) from  *)
(* the stored start date and the current date; never a negative count.     *)
monthsElapsed(start, cur) ==
    Max(0, (cur.y - start.y) * 12 + (cur.m - start.m)
           + (IF cur.d >= start.d THEN 1 ELSE 0))

StartOf(id) == (CHOOSE t \in tenancies : t.id = id).start_date

C1_MonthsElapsedFormula ==
    [][loadStats =>
         \A r \in ledger' :
            r.monthsDue = monthsElapsed(StartOf(r.tenancy_id), now)]_vars

(* C4: for a fixed start date and a fixed non-negative rent, the rent due  *)
(* computed by a later loadStats run is never below the rent due computed  *)
(* by an earlier one.                                                      *)
C4_RentDueMonotone ==
    [][\A r1 \in ledger : \A r2 \in ledger' :
          r1.tenancy_id = r2.tenancy_id
             => r2.theoreticalRentDue >= r1.theoreticalRentDue]_vars

\* Start day 31, the day after a 29-day February: two months are due.
C4_Witness ==
    /\ now = Date(2024, 3, 1)
    /\ \E t \in tenancies : t.start_date = Date(2024, 1, 31)
    /\ \E r \in ledger : r.monthsDue = 2 /\ r.theoreticalRentDue = 16000

(* C5: a start date k calendar months before the current month (k >= 0)    *)
(* whose day-of-month is <= the current day-of-month has month count k + 1 *)
(* and rent due (k + 1) * monthly_rent; a start date equal to the current  *)
(* date has month count 1.                                                 *)
RentOf(id) ==
    (CHOOSE u \in units :
        u.id = (CHOOSE t \in tenancies : t.id = id).unit_id).monthly_rent

C5_AnniversaryPassedCount ==
    [][loadStats =>
         \A r \in ledger' :
            LET s == StartOf(r.tenancy_id)
                k == MonthIndex(now) - MonthIndex(s)
            IN  (k >= 0 /\ s.d <= now.d)
                   => /\ r.monthsDue = k + 1
                      /\ r.theoreticalRentDue = RentOf(r.tenancy_id) * (k + 1)]_vars

(* C2: for every active tenancy, the balance a loadStats run computes is   *)
(* monthly_rent * months_elapsed minus the sum of the amounts of all       *)
(* payments recorded against the tenancy, whatever their payment_for_month *)
(* and payment_date; rent 8000, start 2024-01-01, now 2024-05-03 and       *)
(* payments totalling 24000 give 5 months, 40000 due, balance 16000.       *)
RECURSIVE PaidUpTo(_, _)
PaidUpTo(tenancy, n) ==
    IF n = 0 THEN 0
    ELSE PaidUpTo(tenancy, n - 1)
         + (IF \E p \in payments : p.id = n /\ p.tenancy_id = tenancy
            THEN (CHOOSE p \in payments : p.id = n).amount ELSE 0)

TotalPaid(tenancy) == PaidUpTo(tenancy, sqlite_sequence.payments)

ActiveTenancies == {t \in tenancies : t.status = "active"}

C2_BalanceCountsAllPayments ==
    [][loadStats =>
         /\ \A t \in ActiveTenancies :
               \E r \in ledger' :
                  /\ r.tenancy_id = t.id
                  /\ r.theoreticalRentDue = RentOf(t.id) * r.monthsDue
                  /\ r.currentBalance = RentOf(t.id) * r.monthsDue - TotalPaid(t.id)
         /\ \A r \in ledger' :
               ( /\ now = Date(2024, 5, 3)
                 /\ StartOf(r.tenancy_id) = Date(2024, 1, 1)
                 /\ RentOf(r.tenancy_id) = 8000
                 /\ TotalPaid(r.tenancy_id) = 24000 )
               => ( /\ r.monthsDue = 5
                    /\ r.theoreticalRentDue = 40000
                    /\ r.currentBalance = 16000 )]_vars

\* The scenario: one payment of 24000 attributed to a month before the
\* start, the ledger shows balance 16000.
C2_Witness ==
    /\ now = Date(2024, 5, 3)
    /\ \E p \in payments :
          /\ p.tenancy_id = 1 /\ p.amount = 24000
          /\ p.payment_for_month = [y |-> 2023, m |-> 5]
    /\ TotalPaid(1) = 24000
    /\ \E r \in ledger :
          r.tenancy_id = 1 /\ r.monthsDue = 5 /\ r.currentBalance = 16000

(* C3: the published total outstanding is the sum over the active          *)
(* tenancies of max(0, balance); a tenancy with balance <= 0 adds nothing, *)
(* and an overpaid tenancy does not reduce what another one adds.          *)
RECURSIVE OutstandingUpTo(_)
OutstandingUpTo(n) ==
    IF n = 0 THEN 0
    ELSE OutstandingUpTo(n - 1)
         + (IF \E t \in ActiveTenancies : t.id = n
            THEN Max(0, RentOf(n) * monthsDue(StartOf(n), now, tzOffset) - TotalPaid(n))
            ELSE 0)

C3_OutstandingSumsPositiveBalances ==
    [][loadStats =>
         /\ stats'.totalOutstandingAcrossAllMonths
               = OutstandingUpTo(sqlite_sequence.tenancies)
         /\ {r.tenancy_id : r \in ledger'} = {t.id : t \in ActiveTenancies}]_vars

\* Tenancy 1 overpaid (48000 against 40000 due), tenancy 2 unpaid with
\* 20000 due, the ended tenancy 3 paid for: 20000 is published.
C3_Witness ==
    /\ TotalPaid(1) = 48000
    /\ TotalPaid(2) = 0
    /\ \E r \in ledger : r.tenancy_id = 1 /\ r.currentBalance = -8000
    /\ \E r \in ledger : r.tenancy_id = 2 /\ r.currentBalance = 20000
    /\ stats.totalOutstandingAcrossAllMonths = 20000

\* Tenancy 1 paid exactly what is due: balance 0, nothing outstanding for it.
C3_WitnessZero ==
    /\ TotalPaid(1) = 40000
    /\ \E r \in ledger : r.tenancy_id = 1 /\ r.currentBalance = 0
    /\ stats.totalOutstandingAcrossAllMonths = 20000

(* C6: in every reachable state, also after two "Assign Unit" requests for  *)
(* the same unit issued before the cached unit list is reloaded, no unit   *)
(* has more than one tenancy with status active.                           *)
ActiveOn(unitId) == {t \in tenancies : t.unit_id = unitId /\ t.status = "active"}

C6_OneActiveTenancyPerUnit ==
    \A u \in units : Cardinality(ActiveOn(u.id)) <= 1

(* C7: when the end-tenancy operation completes on an active tenancy, the  *)
(* tenancy has status "ended", its end_date is the current date, its unit  *)
(* has status "vacant", and no other tenancy and no other unit is changed. *)
EndedAs(t, date) == [t EXCEPT !.status = "ended", !.end_date = date]

C8_AssignLeavesActiveAndOccupied ==
    [][handleAddTenancy_update =>
         \E h \in Suspended :
            /\ h.op = "add" /\ h.pc = "update" /\ inflight' = Resume(h)
            /\ \E t \in tenancies' :
                  /\ t.id = h.tenancy /\ t.status = "active"
                  /\ t.tenant_id = h.tenant /\ t.unit_id = h.unit
            /\ \E u \in units' : u.id = h.unit /\ u.status = "occupied"]_vars

(* C9: in every state with no handler suspended between its writes, a unit *)
(* with no active tenancy does not have status "occupied"; also after its  *)
(* tenancy was ended and after its tenant was deleted.                     *)
C9_NoActiveTenancyNotOccupied ==
    inflight = EmptyBag =>
        \A u \in units : ActiveOn(u.id) = {} => u.status # "occupied"

UnitsWithStatus(s) == {u \in units : u.status = s}

C11_UnitStatsPartition ==
    [][loadStats =>
         /\ stats'.totalOccupiedUnits = Cardinality(UnitsWithStatus("occupied"))
         /\ stats'.totalVacantUnits = Cardinality(UnitsWithStatus("vacant"))
         /\ stats'.totalMaintenanceUnits = Cardinality(UnitsWithStatus("maintenance"))
         /\ units = UnitsWithStatus("occupied") \cup UnitsWithStatus("vacant")
                       \cup UnitsWithStatus("maintenance")
         /\ stats'.totalUnits = Cardinality(units)
         /\ stats'.totalOccupiedUnits + stats'.totalVacantUnits
               + stats'.totalMaintenanceUnits = stats'.totalUnits]_vars

\* One unit occupied through a tenancy, the other set to maintenance by hand.
C11_Witness ==
    /\ \E u \in units : u.status = "maintenance"
    /\ \E u \in units : u.status = "occupied"
    /\ ActiveTenancies # {}
    /\ stats.totalUnits = 2
    /\ stats.totalOccupiedUnits = 1
    /\ stats.totalMaintenanceUnits = 1
    /\ stats.totalVacantUnits = 0

(* C12: a dashboard load that fails, because the store cannot be opened or *)
(* because a query rejects, reports an error and updates no statistic: the *)
(* statistics are those shown before the load, never a mixture.            *)
C12_FailedLoadReportsAndKeepsStats ==
    [][(loadStats_catch \/ loadStats_openRejects) =>
          /\ error' # ""
          /\ stats' = stats]_vars

(***************************************************************************)
(* Collections                                                             *)
(***************************************************************************)
CurrentMonthKey == MonthKey(utcToday)

PaymentsFor(month) == {p \in payments : p.payment_for_month = month}

C19_ThisMonthSumsPaymentsForMonth ==
    [][loadStats =>
          /\ stats'.totalCollectedThisMonth = SumAmount(PaymentsFor(CurrentMonthKey))
          /\ \A p \in payments :
                stats'.totalCollectedThisMonth =
                    SumAmount(PaymentsFor(CurrentMonthKey) \ {p})
                    + (IF p.payment_for_month = CurrentMonthKey THEN p.amount ELSE 0)]_vars

\* C19: 24000 is published for the month: the 8000 of the ended tenancy,
\* paid months ago for this month, and 16000 paid last month for this month;
\* a payment made today for another month is left out.
C19_Witness ==
    /\ stats.totalCollectedThisMonth = 24000
    /\ \E p \in payments :
          /\ p.payment_for_month = CurrentMonthKey
          /\ (CHOOSE t \in tenancies : t.id = p.tenancy_id).status = "ended"
    /\ \E p \in payments :
          /\ p.payment_for_month = CurrentMonthKey
          /\ MonthKey(p.payment_date) # CurrentMonthKey
          /\ p.amount = 16000
    /\ \E p \in payments :
          /\ p.payment_for_month # CurrentMonthKey
          /\ p.payment_date = utcToday

(***************************************************************************)
(* Expected rent                                                           *)
(***************************************************************************)
DateLE(a, b) ==
    \/ a.y < b.y
    \/ a.y = b.y /\ a.m < b.m
    \/ a.y = b.y /\ a.m = b.m /\ a.d <= b.d

RECURSIVE RentOfActiveUpTo(_)
RentOfActiveUpTo(n) ==
    IF n = 0 THEN 0
    ELSE RentOfActiveUpTo(n - 1)
         + (IF \E t \in ActiveTenancies : t.id = n THEN RentOf(n) ELSE 0)

\* C20: the expected rent a run publishes is the sum of the monthly rent of
\* the units of the tenancies whose status is active, one full rent for each
\* whatever its start date and nothing for any other status; a step that
\* ends an active tenancy lowers that sum by the tenancy's rent.
C20_ExpectedSumsActiveRents ==
    [][/\ loadStats =>
             stats'.totalExpectedThisMonth = RentOfActiveUpTo(sqlite_sequence.tenancies)
       /\ \A t \in ActiveTenancies :
             (tenancyOperations_endTenancy /\ t \notin tenancies') =>
                 expectedThisMonth(tenancies', units')
                     = expectedThisMonth(tenancies, units) - RentOf(t.id)]_vars

\* C20: after the tenancy on the 8000 unit was ended, 10000 is published:
\* the rent of the active tenancy whose start date is still ahead, with
\* nothing for the ended tenancy and the one on notice.
C20_Witness ==
    /\ stats.totalExpectedThisMonth = 10000
    /\ \E t \in tenancies : t.id = 1 /\ t.status # "active" /\ t.end_date = now
    /\ \E t \in ActiveTenancies : t.id = 2 /\ ~DateLE(t.start_date, now)
    /\ \E t \in tenancies : t.status = "ended"
    /\ \E t \in tenancies : t.status = "notice"

(***************************************************************************)
(* Recomputation                                                           *)
(***************************************************************************)
StatsOfStore ==
    computedStats(tenants, blocks, units, tenancies, payments,
                  now, tzOffset, MonthKey(utcToday))

\* the statistics shown are those of a run over the present store and date
StatsAreCurrent ==
    /\ stats = StatsOfStore
    /\ ledger = ledgerRows(tenancies, units, payments, now, tzOffset)

StaleTenancyIds ==
    (payTenancies \cup {p.tenancy_id : p \in payPayments}) \ {t.id : t \in tenancies}

UnitsOf(b) == {u \in units : u.block_id = b}
TenanciesOn(U) == {t \in tenancies : \E u \in U : u.id = t.unit_id}
PaymentsOf(T) == {p \in payments : \E t \in T : t.id = p.tenancy_id}

NoMissingParent ==
    /\ \A u \in units : u.block_id \in blocks
    /\ \A t \in tenancies : t.tenant_id \in tenants /\ \E u \in units : u.id = t.unit_id
    /\ \A p \in payments : \E t \in tenancies : t.id = p.tenancy_id

\* C16: the step that deletes a block removes exactly the block, its units,
\* the tenancies on those units and the payments of those tenancies, keeps
\* every other row, and leaves no row that references a missing parent.
C16_DeleteBlockCascades ==
    [][\A b \in blocks :
          deleteBlock(b) =>
              /\ blocks' = blocks \ {b}
              /\ units' = units \ UnitsOf(b)
              /\ tenancies' = tenancies \ TenanciesOn(UnitsOf(b))
              /\ payments' = payments \ PaymentsOf(TenanciesOn(UnitsOf(b)))
              /\ tenants' = tenants
              /\ NoMissingParent']_vars

\* C16: block 1 has been deleted with its unit, its active and its ended
\* tenancy and the payment under it, and block 2 still has its unit, its
\* tenancy and its payment.
C16_Witness ==
    /\ blockAlert = BlockDeletedAlert
    /\ blocks = {2}
    /\ units = {UnitRow(2, 2, 10000, "occupied")}
    /\ {t.id : t \in tenancies} = {2}
    /\ \E p \in payments : p.id = 2
    /\ \A p \in payments : p.tenancy_id = 2

C18_StartNotAfterEnd ==
    \A t \in tenancies : t.end_date # NoDate => DateLE(t.start_date, t.end_date)

(***************************************************************************)
(* The rent rate                                                           *)
(***************************************************************************)
BlockOf(tenancyId) ==
    (CHOOSE u \in units :
        u.id = (CHOOSE t \in tenancies : t.id = tenancyId).unit_id).block_id

\* C21: the ledger rows of two active tenancies on units of the same block
\* are computed at the same monthly rate: their rent due stands in the
\* ratio of their months due.
C21_SameBlockSameRate ==
    [][loadStats =>
          \A r1, r2 \in ledger' :
              BlockOf(r1.tenancy_id) = BlockOf(r2.tenancy_id) =>
                  r1.theoreticalRentDue * r2.monthsDue
                      = r2.theoreticalRentDue * r1.monthsDue]_vars

(***************************************************************************)
(* Restart specification: the records store, payments recorded, tenants    *)
(* and blocks deleted in one session, and the application starting again:  *)
(* RootLayout runs initDB on every start.                                  *)
(***************************************************************************)
\* part_007 lines 6-81: initDB drops the five tables and creates them again
\* empty; dropping a table also removes its AUTOINCREMENT counter.  The
\* screens of the new process are mounted with their initial state.
initDB ==
    /\ tenants' = {}
    /\ blocks' = {}
    /\ units' = {}
    /\ tenancies' = {}
    /\ payments' = {}
    /\ sqlite_sequence' = [tenancies |-> 0, payments |-> 0]
    /\ stats' = initialStats
    /\ ledger' = {}
    /\ loading' = TRUE
    /\ error' = ""
    /\ payTenancies' = {}
    /\ payPayments' = {}
    /\ payAlert' = ""
    /\ blockAlert' = ""
    /\ scrUnits' = {}
    /\ availableUnits' = {}
    /\ selectedTenantForTenancy' = 0
    /\ selectedUnitForTenancy' = 0
    /\ scrTenancies' = {}
    /\ isTenancyModalVisible' = FALSE
    /\ tenancyStartDate' = utcToday
    /\ inflight' = EmptyBag
    /\ UNCHANGED clock

NextRestart ==
    \/ handleAddPayment
    \/ handleDeleteTenant
    \/ handleDeleteBlock
    \/ initDB

SpecRestart == InitRecords /\ [][NextRestart]_vars

\* C22: every tenant, block, unit, tenancy and payment in the store before
\* the application is started again is in the store, unchanged, after initDB
\* has run.
C22_RowsSurviveRestart ==
    [][initDB =>
          /\ tenants \subseteq tenants'
          /\ blocks \subseteq blocks'
          /\ units \subseteq units'
          /\ tenancies \subseteq tenancies'
          /\ payments \subseteq payments']_vars

(***************************************************************************)
(* Forms specification: the text typed into the rent and amount fields of  *)
(* the units and payments forms.  A text is a sequence of characters.      *)
(***************************************************************************)
MaxUnits == 4             \* unit rows in the store of the forms specification

DigitValue ==
    ("0" :> 0) @@ ("1" :> 1) @@ ("2" :> 2) @@ ("3" :> 3) @@ ("4" :> 4) @@
    ("5" :> 5) @@ ("6" :> 6) @@ ("7" :> 7) @@ ("8" :> 8) @@ ("9" :> 9)

RECURSIVE trimStart(_)
trimStart(text) ==
    IF text # <<>> /\ Head(text) = " " THEN trimStart(Tail(text)) ELSE text

RECURSIVE trimEnd(_)
trimEnd(text) ==
    IF text # <<>> /\ text[Len(text)] = " "
    THEN trimEnd(SubSeq(text, 1, Len(text) - 1))
    ELSE text

\* String.prototype.trim
trim(text) == trimEnd(trimStart(text))

RECURSIVE LeadingDigits(_)
LeadingDigits(text) ==
    IF text = <<>> \/ Head(text) \notin DOMAIN DigitValue
    THEN <<>>
    ELSE <<Head(text)>> \o LeadingDigits(Tail(text))

RECURSIVE DecimalValue(_)
DecimalValue(digits) ==
    IF digits = <<>>
    THEN 0
    ELSE 10 * DecimalValue(SubSeq(digits, 1, Len(digits) - 1))
            + DigitValue[digits[Len(digits)]]

\* parseFloat on a text without fraction or exponent: leading white space is
\* skipped, a sign is read, then the longest run of digits; whatever follows
\* is ignored; NaN when there is no digit.
parseFloat(text) ==
    LET t == trimStart(text)
        signed == t # <<>> /\ Head(t) \in {"-", "+"}
        digits == LeadingDigits(IF signed THEN Tail(t) ELSE t)
    IN  [isNaN |-> digits = <<>>,
         value |-> IF signed /\ Head(t) = "-"
                   THEN 0 - DecimalValue(digits)
                   ELSE DecimalValue(digits)]

\* texts typed into the Monthly Rent and Amount fields
NumberTexts ==
    { <<"8", "0", "0", "0">>, <<"0">>, <<"-", "5", "0", "0">>,
      <<"1", "2", "a", "b", "c">>, <<"a", "b", "c">>, <<" ">>, <<>> }

\* texts typed into the Unit Number field
UnitNumberTexts == { <<"A", "9">>, <<>> }

\* units.tsx lines 964-993.  No unit row is deleted in the forms
\* specification, so the AUTOINCREMENT id is the largest id plus one.
handleAddUnit ==
    \E unitNumber \in UnitNumberTexts, monthlyRent \in NumberTexts,
       selectedBlockId \in blocks \cup {0}, unitStatus \in {"vacant"} :
        /\ ~(trim(unitNumber) = <<>> \/ trim(monthlyRent) = <<>> \/ selectedBlockId = 0)
        /\ ~parseFloat(monthlyRent).isNaN
        /\ Cardinality(units) < MaxUnits
        /\ units' = units \cup
              {UnitRow(Cardinality(units) + 1, selectedBlockId,
                       parseFloat(monthlyRent).value, unitStatus)}
        /\ UNCHANGED <<tenants, blocks, tenancies, payments, sqlite_sequence, clock,
                       dashboard, paymentsScreen, blocksScreen, tenantsScreen>>

\* payments.tsx lines 214-261: validateInputs on the typed amount, then the
\* insert of parseFloat(paymentAmount).
handleAddPayment_paymentAmount ==
    \E selectedTenancyId \in payTenancies, paymentAmount \in NumberTexts :
        LET amount == parseFloat(paymentAmount)
        IN  /\ ~amount.isNaN
            /\ validateInputs(selectedTenancyId, amount.value)
            /\ sqlite_sequence.payments <= MaxPayments
            /\ insertPayment(selectedTenancyId, amount.value, now, formatDate)

\* part_000 lines 248-274: the payments screen that checks the typed amount
\* with isNaN only.
PaymentsScreen_handleAddPayment ==
    \E selectedTenancyId \in payTenancies \cup {0}, paymentAmount \in NumberTexts :
        /\ ~(selectedTenancyId = 0 \/ trim(paymentAmount) = <<>>)
        /\ ~parseFloat(paymentAmount).isNaN
        /\ sqlite_sequence.payments <= MaxPayments
        /\ IF tenancyExists(selectedTenancyId)
           THEN /\ payments' = payments \cup
                      {PaymentRow(sqlite_sequence.payments + 1, selectedTenancyId,
                                  parseFloat(paymentAmount).value, formatDate,
                                  formatMonthYear(now))}
                /\ sqlite_sequence' = [sqlite_sequence EXCEPT !.payments = @ + 1]
                /\ payAlert' = "Payment added successfully!"
                /\ payTenancies' = activeTenancyIds(tenants, units, tenancies)
                /\ payPayments' = loadedPayments(blocks, tenants, units, tenancies,
                                                 payments')
           ELSE /\ payAlert' = "Failed to add payment. Please try again."
                /\ UNCHANGED <<payments, sqlite_sequence, payTenancies, payPayments>>
        /\ UNCHANGED <<tenants, blocks, units, tenancies, clock, dashboard,
                       blocksScreen, tenantsScreen>>

NextForms ==
    \/ handleAddUnit
    \/ handleAddPayment_paymentAmount
    \/ PaymentsScreen_handleAddPayment

SpecForms == InitRecords /\ [][NextForms]_vars

\* C23: every unit row written to the store has a strictly positive monthly
\* rent and every payment row written has a strictly positive amount.
C23_OnlyPositiveNumbersStored ==
    [][/\ \A u \in units' \ units : u.monthly_rent > 0
       /\ \A p \in payments' \ payments : p.amount > 0]_vars

(***************************************************************************)
(* End failure specification: the tenancy specification in which the       *)
(* second write of handleEndTenancy can reject, or the process stop before *)
(* it.                                                                     *)
(***************************************************************************)
\* As handleEndTenancy_catch, with the two writes in one transaction that
\* is rolled back.
handleEndTenancy_catch_RolledBack(h) ==
    /\ h.op = "end" /\ h.pc = "unit"
    /\ tenancies' = { IF t.id = h.tenancy
                      THEN [t EXCEPT !.end_date = NoDate, !.status = "active"]
                      ELSE t : t \in tenancies }
    /\ inflight' = Resume(h)
    /\ UNCHANGED <<tenants, blocks, units, payments, sqlite_sequence, clock,
                   dashboard, paymentsScreen, blocksScreen, scrUnits, availableUnits,
                   selectedTenantForTenancy, selectedUnitForTenancy, scrTenancies,
                   isTenancyModalVisible, tenancyStartDate>>

\* part_006 lines 341-362: the UPDATE of units rejects after the UPDATE of
\* tenancies was committed; the catch block logs and alerts, and the handler
\* ends.  Nothing is written, the lists are not reloaded.
handleEndTenancy_catch(h) ==
    /\ h.op = "end" /\ h.pc = "unit"
    /\ inflight' = Resume(h)
    /\ UNCHANGED <<store, clock, dashboard, paymentsScreen, blocksScreen, scrUnits,
                   availableUnits, selectedTenantForTenancy, selectedUnitForTenancy,
                   scrTenancies, isTenancyModalVisible, tenancyStartDate>>

handleEndTenancy_unitRejects == \E h \in Suspended : handleEndTenancy_catch(h)

NextEndFailure ==
    \/ Next
    \/ handleEndTenancy_unitRejects

SpecEndFailure == Init /\ [][NextEndFailure]_vars

LoadStatsCall(pc, partial) == [op |-> "loadStats", pc |-> pc, partial |-> partial]

\* the invocations of loadStats suspended at the await named pc
SuspendedAt(pc) == { h \in Suspended : h.op = "loadStats" /\ h.pc = pc }

\* the invocation resumes from its await, assigns its locals and suspends at
\* the next await
loadStats_continue(h, pc, partial) ==
    /\ inflight' = Suspend(Resume(h), LoadStatsCall(pc, partial))
    /\ UNCHANGED <<store, clock, dashboard, paymentsScreen, blocksScreen, scrUnits,
                   availableUnits, selectedTenantForTenancy, selectedUnitForTenancy,
                   scrTenancies, isTenancyModalVisible, tenancyStartDate>>

\* line 53: openDatabaseAsync resolves; the try block is entered
loadStats_opened ==
    \E h \in SuspendedAt("open") : loadStats_continue(h, "totalTenants", h.partial)

\* lines 60-63: SELECT COUNT(id) FROM tenants
loadStats_totalTenants ==
    \E h \in SuspendedAt("totalTenants") :
        loadStats_continue(h, "totalBlocks",
            [h.partial EXCEPT !.totalTenants = Cardinality(tenants)])

\* lines 66-69: SELECT COUNT(id) FROM blocks
loadStats_totalBlocks ==
    \E h \in SuspendedAt("totalBlocks") :
        loadStats_continue(h, "unitStatuses",
            [h.partial EXCEPT !.totalBlocks = Cardinality(blocks)])

\* lines 72-89: SELECT status, COUNT(id) FROM units GROUP BY status
loadStats_unitStatuses ==
    \E h \in SuspendedAt("unitStatuses") :
        loadStats_continue(h, "tenancyStatuses",
            [h.partial EXCEPT !.totalUnits = Cardinality(units),
                              !.totalOccupiedUnits = CountStatus(units, "occupied"),
                              !.totalVacantUnits = CountStatus(units, "vacant"),
                              !.totalMaintenanceUnits = CountStatus(units, "maintenance")])

\* lines 92-107: SELECT status, COUNT(id) FROM tenancies GROUP BY status
loadStats_tenancyStatuses ==
    \E h \in SuspendedAt("tenancyStatuses") :
        loadStats_continue(h, "totalCollected",
            [h.partial EXCEPT !.totalActiveTenancies = CountStatus(tenancies, "active"),
                              !.totalEndedTenancies = CountStatus(tenancies, "ended"),
                              !.totalNoticeTenancies = CountStatus(tenancies, "notice")])

\* lines 109-113: SELECT SUM(amount) FROM payments
loadStats_totalCollected ==
    \E h \in SuspendedAt("totalCollected") :
        loadStats_continue(h, "collectedThisMonth",
            [h.partial EXCEPT !.totalCollectedAcrossAllMonths = collectedAllTime(payments)])

\* lines 115-133: SELECT SUM(amount) FROM payments WHERE payment_for_month = ?
loadStats_collectedThisMonth ==
    \E h \in SuspendedAt("collectedThisMonth") :
        loadStats_continue(h, "expectedThisMonth",
            [h.partial EXCEPT !.totalCollectedThisMonth =
                                  collectedThisMonth(payments, MonthKey(utcToday))])

\* lines 135-143: SUM(u.monthly_rent) over the active tenancies
loadStats_expectedThisMonth ==
    \E h \in SuspendedAt("expectedThisMonth") :
        loadStats_continue(h, "outstandingBalances",
            [h.partial EXCEPT !.totalExpectedThisMonth =
                                  expectedThisMonth(tenancies, units)])

\* lines 153-223: the outstandingBalances query, the forEach over its rows,
\* setStats and the finally block
loadStats_outstandingBalances ==
    \E h \in SuspendedAt("outstandingBalances") :
        LET rows == ledgerRows(tenancies, units, payments, now, tzOffset)
        IN  /\ stats' = [h.partial EXCEPT
                            !.totalOutstandingAcrossAllMonths = SumPositiveBalances(rows)]
            /\ ledger' = rows
            /\ loading' = FALSE
            /\ error' = error
            /\ inflight' = Resume(h)
            /\ UNCHANGED <<store, clock, paymentsScreen, blocksScreen, scrUnits,
                           availableUnits, selectedTenantForTenancy,
                           selectedUnitForTenancy, scrTenancies,
                           isTenancyModalVisible, tenancyStartDate>>

\* lines 218-223: a query awaited inside the try block rejects; catch sets
\* the message, finally clears `loading`
loadStats_queryRejects ==
    \E h \in Suspended :
        /\ h.op = "loadStats" /\ h.pc # "open"
        /\ error' = "Failed to load dashboard statistics. Please try again."
        /\ loading' = FALSE
        /\ inflight' = Resume(h)
        /\ UNCHANGED <<store, clock, stats, ledger, paymentsScreen, blocksScreen,
                       scrUnits, availableUnits, selectedTenantForTenancy,
                       selectedUnitForTenancy, scrTenancies, isTenancyModalVisible,
                       tenancyStartDate>>

\* line 53: openDatabaseAsync rejects before the try block is entered; the
\* invocation ends with a rejected promise that nothing handles
loadStats_openRejected ==
    \E h \in SuspendedAt("open") :
        /\ inflight' = Resume(h)
        /\ UNCHANGED <<store, clock, dashboard, paymentsScreen, blocksScreen, scrUnits,
                       availableUnits, selectedTenantForTenancy, selectedUnitForTenancy,
                       scrTenancies, isTenancyModalVisible, tenancyStartDate>>

\* lines 50-53 and 226-228: the screen is mounted, its effect has called
\* loadStats, which has set loading and error and awaits the database.
InitDashboard ==
    /\ tenants = {1, 2}
    /\ blocks = {1}
    /\ units = {UnitRow(1, 1, 8000, "occupied"), UnitRow(2, 1, 10000, "occupied")}
    /\ tenancies =
          {TenancyRow(1, 1, 1, Date(2024, 1, 1), NoDate, "active"),
           TenancyRow(2, 2, 2, Date(2024, 3, 15), NoDate, "active"),
           TenancyRow(3, 2, 1, Date(2023, 6, 1), Date(2023, 12, 31), "ended")}
    /\ payments = {PaymentRow(1, 3, 8000, Date(2023, 12, 30), MonthKey(LedgerDate))}
    /\ sqlite_sequence = [tenancies |-> 3, payments |-> 1]
    /\ now = LedgerDate
    /\ tzOffset \in TimeZones
    /\ utcToday \in ToISODates(now, tzOffset)
    /\ stats = initialStats
    /\ ledger = {}
    /\ loading = TRUE
    /\ error = ""
    /\ payTenancies = {1, 2}
    /\ payPayments = payments
    /\ payAlert = ""
    /\ blockAlert = ""
    /\ scrUnits = {}
    /\ availableUnits = {}
    /\ selectedTenantForTenancy = 0
    /\ selectedUnitForTenancy = 0
    /\ scrTenancies = {}
    /\ isTenancyModalVisible = FALSE
    /\ tenancyStartDate = NoDate
    /\ inflight = SetToBag({LoadStatsCall("open", initialStats)})

NextDashboard ==
    \/ loadStats_opened
    \/ loadStats_totalTenants
    \/ loadStats_totalBlocks
    \/ loadStats_unitStatuses
    \/ loadStats_tenancyStatuses
    \/ loadStats_totalCollected
    \/ loadStats_collectedThisMonth
    \/ loadStats_expectedThisMonth
    \/ loadStats_outstandingBalances
    \/ loadStats_queryRejects
    \/ loadStats_openRejected
    \/ handleAddPayment_paymentAmount

SpecDashboard == InitDashboard /\ [][NextDashboard]_vars

\* C25: the statistics a load publishes are the statistics of one store
\* state: of the store with some part of the payments recorded by the time
\* of publication.
C25_PublishedStatsOfOneStoreState ==
    [][loadStats_outstandingBalances =>
          \E P \in SUBSET payments :
              stats' = computedStats(tenants, blocks, units, tenancies, P,
                                     now, tzOffset, MonthKey(utcToday))]_vars

(***************************************************************************)
(* Fair dashboard specification: every awaited store call of loadStats     *)
(* eventually resolves or rejects.                                         *)
(***************************************************************************)
loadStats_storeCallReturns ==
    \/ loadStats_opened
    \/ loadStats_totalTenants
    \/ loadStats_totalBlocks
    \/ loadStats_unitStatuses
    \/ loadStats_tenancyStatuses
    \/ loadStats_totalCollected
    \/ loadStats_collectedThisMonth
    \/ loadStats_expectedThisMonth
    \/ loadStats_outstandingBalances
    \/ loadStats_queryRejects
    \/ loadStats_openRejected

SpecDashboardFair == SpecDashboard /\ WF_vars(loadStats_storeCallReturns)

\* C26: every loadStats invocation eventually clears `loading` and ends
\* with either the statistics shown or the error shown, not both.
C26_LoadEventuallyEnds ==
    <>[](/\ loading = FALSE
         /\ inflight = EmptyBag
         /\ (error = "") # (stats = initialStats))

(***************************************************************************)
(* Assignment specification: the tenancy specification without deletions:  *)
(* tenancies are only assigned and ended, and every write succeeds.        *)
(***************************************************************************)
NextAssign ==
    \/ openTenancyModal
    \/ closeTenancyModal
    \/ setSelectedUnitForTenancy
    \/ handleAddTenancy_begin
    \/ handleAddTenancy_insert
    \/ handleAddTenancy_update
    \/ handleEndTenancy_begin
    \/ handleEndTenancy_tenancy
    \/ handleEndTenancy_unit

SpecAssign == Init /\ [][NextAssign]_vars

\* part_004 lines 474-491: the earlier dashboard's occupied count, the number
\* of rows of its query over the active tenancies
paymentsByTenancy_length(ten) == CountStatus(ten, "active")

\* C27: whenever no assignment or ending is under way, the number of units
\* with status occupied equals the number of active tenancies, so the two
\* dashboards' occupied counts agree.
C27_OccupiedUnitsEqualActiveTenancies ==
    inflight = EmptyBag =>
        CountStatus(units, "occupied") = paymentsByTenancy_length(tenancies)

(***************************************************************************)
(* Payment specification: the ledger store with payments recorded against  *)
(* its two active tenancies.                                               *)
(***************************************************************************)
NextPayment ==
    \/ handleAddPayment

SpecPayment == InitLedger /\ [][NextPayment]_vars

Min(a, b) == IF a < b THEN a ELSE b

ActiveTenancyIds == {t.id : t \in ActiveTenancies}

\* the balance loadStats computes for an active tenancy over the payments pay
BalanceOf(id, pay) ==
    (CHOOSE r \in ledgerRows(tenancies, units, pay, now, tzOffset) :
        r.tenancy_id = id).currentBalance

\* the total outstanding loadStats computes over the payments pay
OutstandingOf(pay) ==
    SumPositiveBalances(ledgerRows(tenancies, units, pay, now, tzOffset))

\* C28: a payment of a positive amount a recorded against an active tenancy
\* lowers the total outstanding by min(a, max(0, the tenancy's balance
\* before)), leaves the balance of every other active tenancy as it was and
\* raises the total collected by a.
C28_PaymentLowersOutstanding ==
    [][\A id \in ActiveTenancyIds, a \in Amounts,
          month \in PaymentMonthPicks \cup {now},
          date \in PaymentDatePicks \cup {formatDate} :
            (a > 0 /\ insertPayment(id, a, month, date) /\ payments' # payments) =>
                /\ OutstandingOf(payments')
                      = OutstandingOf(payments) - Min(a, Max(0, BalanceOf(id, payments)))
                /\ OutstandingOf(payments') <= OutstandingOf(payments)
                /\ \A other \in ActiveTenancyIds \ {id} :
                      BalanceOf(other, payments') = BalanceOf(other, payments)
                /\ collectedAllTime(payments') = collectedAllTime(payments) + a]_vars

\* C28 witness: an active tenancy has two payments, was in credit after the
\* first one alone, and another active tenancy still owes rent.
C28_Witness ==
    \E id \in ActiveTenancyIds :
        /\ \E p \in payments :
              /\ p.tenancy_id = id
              /\ \E q \in payments : q.tenancy_id = id /\ q.id > p.id
              /\ BalanceOf(id, {p}) < 0
        /\ \E other \in ActiveTenancyIds \ {id} : BalanceOf(other, payments) > 0

(***************************************************************************)
(* Sample data specification: the store of database.js, whose initDB       *)
(* creates the tables if they do not exist and then inserts the sample     *)
(* rows; the application is installed, started MaxStarts times, and blocks *)
(* are deleted on the blocks screen.  In this specification the store      *)
(* keeps an AUTOINCREMENT counter for each of the five tables.             *)
(***************************************************************************)
MaxStarts == 2            \* starts of the application, each running initDB

\* lines 144-206: the units of Block A, Block B and Block C, one INSERT each:
\* <<block_id, monthly_rent, number of rows>>
SampleUnits == << <<1, 8000, 25>>, <<2, 9000, 18>>, <<3, 10000, 8>> >>

\* lines 213-275: the tenancies, one INSERT per block: tenant i in unit i for
\* every i of the range <<from, to>>
SampleTenancies == << <<1, 25>>, <<26, 43>>, <<44, 51>> >>

\* lines 281-308: the payments, three INSERTs in one call: <<tenancy_id,
\* amount, day of May 2024>>, all for the month 2024-05
SamplePayments ==
    << << <<1, 8000, 3>>, <<2, 8000, 2>>, <<3, 4000, 5>>, <<5, 8000, 1>>,
          <<8, 8000, 4>>, <<10, 6000, 2>>, <<15, 8000, 3>>, <<20, 8000, 1>> >>,
       << <<26, 9000, 2>>, <<28, 9000, 3>>, <<30, 4500, 4>>, <<32, 9000, 1>>,
          <<35, 9000, 3>>, <<40, 9000, 5>> >>,
       << <<44, 10000, 1>>, <<45, 10000, 2>>, <<47, 5000, 3>>, <<50, 10000, 4>> >> >>

\* The k-th units INSERT on the units un, the counter standing at seq: the
\* statement is rejected as a whole when its block_id names no block.
insertSampleUnits(un, bl, seq, k) ==
    LET stmt == SampleUnits[k]
    IN  IF stmt[1] \in bl
        THEN [ok |-> TRUE,
              rows |-> un \cup {UnitRow(seq + i, stmt[1], stmt[2], "occupied")
                                  : i \in 1..stmt[3]},
              seq |-> seq + stmt[3]]
        ELSE [ok |-> FALSE, rows |-> un, seq |-> seq]

\* The k-th tenancies INSERT: rejected as a whole when a tenant_id or a
\* unit_id names no row.
insertSampleTenancies(ten, tn, un, seq, k) ==
    LET from == SampleTenancies[k][1]
        to == SampleTenancies[k][2]
    IN  IF \A i \in from..to : i \in tn /\ \E u \in un : u.id = i
        THEN [ok |-> TRUE,
              rows |-> ten \cup {TenancyRow(seq + (i - from) + 1, i, i,
                                             Date(2024, 1, 1), NoDate, "active")
                                   : i \in from..to},
              seq |-> seq + (to - from) + 1]
        ELSE [ok |-> FALSE, rows |-> ten, seq |-> seq]

\* The k-th payments INSERT: rejected as a whole when a tenancy_id names no
\* row.
insertSamplePayments(pay, ten, seq, k) ==
    LET stmt == SamplePayments[k]
    IN  IF \A j \in 1..Len(stmt) : \E t \in ten : t.id = stmt[j][1]
        THEN [ok |-> TRUE,
              rows |-> pay \cup {PaymentRow(seq + j, stmt[j][1], stmt[j][2],
                                            Date(2024, 5, stmt[j][3]),
                                            [y |-> 2024, m |-> 5])
                                   : j \in 1..Len(stmt)},
              seq |-> seq + Len(stmt)]
        ELSE [ok |-> FALSE, rows |-> pay, seq |-> seq]

\* database.js lines 6-315.  The tables exist after the first run (CREATE
\* TABLE IF NOT EXISTS); the INSERTs are run in their order, each committed
\* on its own, and the first one rejected ends the function in its catch
\* block.  The screens are not mounted while initDB runs.
initDB_sampleData ==
    LET seq == sqlite_sequence
        Then(r, next) == IF r.ok THEN next ELSE r
    IN
    \E blocks1 \in {blocks \cup ((seq.blocks + 1)..(seq.blocks + 3))},
       tenants1 \in {tenants \cup ((seq.tenants + 1)..(seq.tenants + 51))} :
    \E u1 \in {insertSampleUnits(units, blocks1, seq.units, 1)} :
    \E u2 \in {Then(u1, insertSampleUnits(u1.rows, blocks1, u1.seq, 2))} :
    \E u3 \in {Then(u2, insertSampleUnits(u2.rows, blocks1, u2.seq, 3))} :
    \E t0 \in {[ok |-> u3.ok, rows |-> tenancies, seq |-> seq.tenancies]} :
    \E t1 \in {Then(t0, insertSampleTenancies(t0.rows, tenants1, u3.rows, t0.seq, 1))} :
    \E t2 \in {Then(t1, insertSampleTenancies(t1.rows, tenants1, u3.rows, t1.seq, 2))} :
    \E t3 \in {Then(t2, insertSampleTenancies(t2.rows, tenants1, u3.rows, t2.seq, 3))} :
    \E p0 \in {[ok |-> t3.ok, rows |-> payments, seq |-> seq.payments]} :
    \E p1 \in {Then(p0, insertSamplePayments(p0.rows, t3.rows, p0.seq, 1))} :
    \E p2 \in {Then(p1, insertSamplePayments(p1.rows, t3.rows, p1.seq, 2))} :
    \E p3 \in {Then(p2, insertSamplePayments(p2.rows, t3.rows, p2.seq, 3))} :
        /\ seq.blocks < 3 * MaxStarts
        /\ blocks' = blocks1
        /\ tenants' = tenants1
        /\ units' = u3.rows
        /\ tenancies' = t3.rows
        /\ payments' = p3.rows
        /\ sqlite_sequence' =
              [blocks |-> seq.blocks + 3, tenants |-> seq.tenants + 51,
               units |-> u3.seq, tenancies |-> t3.seq, payments |-> p3.seq]
        /\ UNCHANGED <<clock, dashboard, paymentsScreen, blocksScreen, tenantsScreen>>

\* the store of a new installation: no table holds a row
InitInstalled ==
    /\ tenants = {}
    /\ blocks = {}
    /\ units = {}
    /\ tenancies = {}
    /\ payments = {}
    /\ sqlite_sequence =
          [blocks |-> 0, tenants |-> 0, units |-> 0, tenancies |-> 0, payments |-> 0]
    /\ now = LedgerDate
    /\ tzOffset \in TimeZones
    /\ utcToday \in ToISODates(now, tzOffset)
    /\ stats = initialStats
    /\ ledger = {}
    /\ loading = TRUE
    /\ error = ""
    /\ payTenancies = {}
    /\ payPayments = {}
    /\ payAlert = ""
    /\ blockAlert = ""
    /\ TenantsScreenUnmounted

NextSampleData ==
    \/ initDB_sampleData
    \/ handleDeleteBlock

SpecSampleData == InitInstalled /\ [][NextSampleData]_vars

\* C29: initDB run on a store that an earlier run has initialised leaves the
\* five tables as they are.
C29_SecondInitDBChangesNothing ==
    [][(initDB_sampleData /\ sqlite_sequence.blocks > 0) =>
          <<tenants, blocks, units, tenancies, payments>>'
              = <<tenants, blocks, units, tenancies, payments>>]_vars

\* C29: no unit has more than one active tenancy.
C29_OneActiveTenancyPerSampleUnit ==
    \A u \in units :
        Cardinality({t \in tenancies : t.unit_id = u.id /\ t.status = "active"}) <= 1

(***************************************************************************)
(* Edit specification: the records store on a device in any of the time    *)
(* zones, payments opened in the edit form and saved.  An edit is taken    *)
(* while every payment date stays within EditDays days of a recorded one.  *)
(***************************************************************************)
EditDays == 4             \* days, ending at a recorded payment date, edits stay in

RECURSIVE DaysBack(_, _)
DaysBack(dt, n) == IF n = 0 THEN {} ELSE {dt} \cup DaysBack(PrevDay(dt), n - 1)

RecordedPaymentDates == {Date(2023, 6, 1), Date(2024, 4, 20)}

EditWindow == UNION {DaysBack(dt, EditDays) : dt \in RecordedPaymentDates}

InitEdit ==
    /\ tenants = {1, 2}
    /\ blocks = {1, 2}
    /\ units = {UnitRow(1, 1, 8000, "occupied"), UnitRow(2, 2, 10000, "occupied")}
    /\ tenancies =
          {TenancyRow(1, 1, 1, Date(2024, 1, 1), NoDate, "active"),
           TenancyRow(2, 2, 2, Date(2024, 3, 15), NoDate, "active"),
           TenancyRow(3, 2, 1, Date(2023, 6, 1), Date(2023, 12, 31), "ended")}
    /\ payments = {PaymentRow(1, 3, 8000, Date(2023, 6, 1), [y |-> 2023, m |-> 6]),
                   PaymentRow(2, 2, 10000, Date(2024, 4, 20), [y |-> 2024, m |-> 4])}
    /\ sqlite_sequence = [tenancies |-> 3, payments |-> 2]
    /\ now = LedgerDate
    /\ tzOffset \in TimeZones
    /\ utcToday \in ToISODates(now, tzOffset)
    /\ stats = initialStats
    /\ ledger = {}
    /\ loading = TRUE
    /\ error = ""
    /\ payTenancies = activeTenancyIds(tenants, units, tenancies)
    /\ payPayments = payments
    /\ payAlert = ""
    /\ blockAlert = ""
    /\ TenantsScreenUnmounted

\* handleEditPress and handleUpdatePayment, taken while the payment dates
\* stay in the window
handleUpdatePayment_inWindow ==
    /\ handleUpdatePayment
    /\ \A p \in payments' : p.payment_date \in EditWindow

NextEdit ==
    \/ handleUpdatePayment_inWindow

SpecEdit == InitEdit /\ [][NextEdit]_vars

\* C30: a payment opened in the edit form and saved with no field changed
\* keeps its payment_date and its payment_for_month, in every time zone.
C30_EditKeepsDates ==
    [][\A e \in payPayments :
          updatePayment(e, e.tenancy_id, e.amount) =>
              \E p \in payments' : /\ p.id = e.id
                                   /\ p.payment_date = e.payment_date
                                   /\ p.payment_for_month = e.payment_for_month]_vars
====
